---- MODULE Spec2Model ----
(***************************************************************************)
(* A model of the LiquidCats/jsonrpc client library.                       *)
(*                                                                         *)
(* The repository holds five revisions of package jsonrpc.  A process      *)
(* links exactly one of them, so the variable `version` is fixed by Init:  *)
(*   "client"   client.go               Prepare(ctx,..) / Execute[R](req)  *)
(*   "execute"  data.go + execute.go    rpc.Execute(ctx, url, opts...)     *)
(*   "executor" data.go + executor.go   rpc.Execute(ctx, url, opts...)     *)
(*   "pooled"   part_000 + part_001     rpc.Execute(url, opts...)          *)
(*   "prepare"  request.go + part_006   req.Prepare(url, opts...) and      *)
(*              prepared.Execute(client, opts...)                          *)
(*   "request"  request.go              NewRequest(method, params, opts...)*)
(*              in a process that builds envelopes and sends none          *)
(* The caller makes one call after the other; what a call leaves behind   *)
(* in the shared clients is what the next call finds.  A call blocks       *)
(* inside http.Client.Do; the model splits each Execute at that point: the *)
(* first action runs the code up to the call of Do, the second one runs    *)
(* the code from the return of Do to the return of Execute.                *)
(***************************************************************************)
EXTENDS Integers, Sequences, FiniteSets, TLC

VARIABLES
    version,    \* the revision of the package the process links
    call,       \* the call the caller is making, or the last one it made
    clients,    \* the fields of every *http.Client of the process
    ctxDone,    \* which contexts are cancelled
    now,        \* the reading of time.Now()
    bufferPool  \* the buffers at rest in the package's sync.Pool

vars == <<version, call, clients, ctxDone, now, bufferPool>>

(***************************************************************************)
(* Bounds of the model.                                                    *)
(***************************************************************************)
MaxOpts  == 2   \* options passed for one call: to NewRequest, Prepare and Execute together
MaxClock == 1   \* readings of time.Now() the model distinguishes

Versions == {"client", "execute", "executor", "pooled", "prepare", "request"}

(***************************************************************************)
(* Strings are sequences of tokens; a number is rendered digit by digit,   *)
(* as fmt's %d does.                                                       *)
(***************************************************************************)
Digit(d) == CASE d = 0 -> "0" [] d = 1 -> "1" [] d = 2 -> "2" [] d = 3 -> "3"
              [] d = 4 -> "4" [] d = 5 -> "5" [] d = 6 -> "6" [] d = 7 -> "7"
              [] d = 8 -> "8" [] d = 9 -> "9"

RECURSIVE Digits(_)
Digits(n) == IF n < 10 THEN <<Digit(n)>> ELSE Digits(n \div 10) \o <<Digit(n % 10)>>

FormatInt(n) == IF n < 0 THEN <<"-">> \o Digits(0 - n) ELSE Digits(n)

\* strings.Contains on token sequences
Contains(s, sub) ==
    \E i \in 0..(Len(s) - Len(sub)) : SubSeq(s, i + 1, i + Len(sub)) = sub

(***************************************************************************)
(* Errors.  kind "nil" is Go's nil error, "eris" an error built by         *)
(* eris.Wrap / eris.Errorf / errors.Wrap (text is its Error() string),     *)
(* "rpc" a *RPCError (code and message are its fields).                    *)
(***************************************************************************)
NilErr == [kind |-> "nil", text |-> <<>>, code |-> 0, message |-> ""]

NewError(text) == [kind |-> "eris", text |-> text, code |-> 0, message |-> ""]

\* eris.Wrap(err, msg): "<msg>: <cause>"
Wrap(err, msg) == [kind |-> "eris", text |-> <<msg, ": ">> \o err.text,
                   code |-> 0, message |-> ""]

\* eris.Errorf("http status %d", resp.StatusCode)
StatusError(status) == NewError(<<"http status ">> \o FormatInt(status))

RPCError(code, message) == [kind |-> "rpc", text |-> <<>>, code |-> code, message |-> message]

\* (*RPCError).Error and the Error() of the other kinds
ErrorString(e) ==
    IF e.kind = "rpc"
    THEN <<"jsonrpc error: code=">> \o FormatInt(e.code) \o <<", message=", e.message>>
    ELSE e.text

(***************************************************************************)
(* Result pointers: nil, or a pointer to a decoded value.                  *)
(***************************************************************************)
NilResult == [nil |-> TRUE, val |-> 0]
ResultPtr(v) == [nil |-> FALSE, val |-> v]

(***************************************************************************)
(* Contexts and HTTP clients.  "background" is context.Background(),       *)
(* "ctx1" a context the caller may cancel.  "http.DefaultClient" is the    *)
(* standard library's shared client, "defaultHTTPClient" the package's     *)
(* tuned shared client, "custom" a client owned by the caller, "nil" a nil *)
(* *http.Client.                                                           *)
(***************************************************************************)
Contexts  == {"background", "ctx1"}
ClientIds == {"http.DefaultClient", "defaultHTTPClient", "custom"}

DefaultTimeout == 0     \* defaultHTTPClient.Timeout; http.DefaultClient has the zero value too
OptTimeout     == 5     \* the timeout a caller's client option sets
CustomTimeout  == 10    \* the timeout of the caller's own client
ExecTimeout    == 123   \* the timeout another client option of a caller sets

\* the shared clients as the package declares them, and the caller's client
defaultHTTPClient == [Timeout |-> DefaultTimeout]
InitClients ==
    [id \in ClientIds |-> IF id = "custom" THEN [Timeout |-> CustomTimeout]
                          ELSE defaultHTTPClient]

(***************************************************************************)
(* The request envelope and its wire encoding.                             *)
(***************************************************************************)
Version == "2.0"

Params == {"nil", "[1,2]", "chan"}      \* Go values: nil, []int{1,2}, a channel

\* the params of the callers whose envelopes the model follows no further than
\* their wire form: []int{} as well
TypedParams == Params \cup {"[]"}

\* what `omitempty` drops: a nil interface when the field is declared `any`
\* (data.go:28), a nil or empty slice when it has the type parameter's type
\* (client.go:32, request.go:12); and what the encoder refuses
IsEmptyValue(kind, p) == IF kind = "interface" THEN p = "nil" ELSE p \in {"nil", "[]"}
Encodable(p)          == p # "chan"

\* the envelope is a record of the fields of the struct; kind is the
\* reflect.Kind of the declared type of Params, which the encoder consults.
\* An id is a JSON number or a JSON string; v is its text
NumberID(n) == [t |-> "number", v |-> FormatInt(n)]
StringID(v) == [t |-> "string", v |-> v]
\* an encoder that writes every id as a JSON string
IDJSONQuoted(id) == <<"\"">> \o id.v \o <<"\"">>

IDJSON(id)  == IF id.t = "string" THEN <<"\"">> \o id.v \o <<"\"">> ELSE id.v

\* CreateRequest[Result](method, params)
CreateRequest(method, params, clock) ==
    [Method |-> method, Params |-> params, ID |-> NumberID(clock), JSONRPC |-> Version,
     kind |-> "interface"]

\* WithRPCVersion(version): req.JSONRPC = version
WithRPCVersion(ver, req) == [req EXCEPT !.JSONRPC = ver]

\* WithRPCid(id): req.ID = id
WithRPCid(id, req) == [req EXCEPT !.ID = id]

\* the builder options a caller of NewRequest passes
\* (value is the version of a WithRPCVersion, id the id of a WithRPCid: a Go
\* string or a Go int)
RPCOpts == {
    [op |-> "WithRPCVersion", value |-> "1.1", id |-> StringID(<<>>)],
    [op |-> "WithRPCid", value |-> "", id |-> StringID(<<"custom-id">>)],
    [op |-> "WithRPCid", value |-> "", id |-> StringID(<<"rpc-err">>)],
    [op |-> "WithRPCid", value |-> "", id |-> NumberID(42)] }

\* opt(req) for a builder option
CallRPCOpt(opt, req) ==
    IF opt.op = "WithRPCVersion" THEN WithRPCVersion(opt.value, req)
    ELSE WithRPCid(opt.id, req)

\* NewRequest with the options applied from the last to the first
RECURSIVE ApplyRPCOptsReversed(_, _)
ApplyRPCOptsReversed(opts, req) ==
    IF opts = <<>> THEN req
    ELSE CallRPCOpt(Head(opts), ApplyRPCOptsReversed(Tail(opts), req))

\* request.go:39-41
RECURSIVE ApplyRPCOpts(_, _)
ApplyRPCOpts(opts, req) ==
    IF opts = <<>> THEN req
    ELSE ApplyRPCOpts(Tail(opts), CallRPCOpt(Head(opts), req))

\* NewRequest[Params, Result](method, params, opts...)
NewRequest(method, params, opts, clock) ==
    ApplyRPCOpts(opts,
        [Method |-> method, Params |-> params, ID |-> StringID(FormatInt(clock)),
         JSONRPC |-> Version, kind |-> "slice"])

\* sonic.Marshal(rpc): the fields in declaration order, params under omitempty
Marshal(rpc) ==
    <<"{\"method\":\"", rpc.Method, "\"">>
    \o (IF IsEmptyValue(rpc.kind, rpc.Params) THEN <<>> ELSE <<",\"params\":", rpc.Params>>)
    \o <<",\"id\":">> \o IDJSON(rpc.ID)
    \o <<",\"jsonrpc\":\"", rpc.JSONRPC, "\"}">>

\* Encoder.Encode(rpc) writes the value and a newline
Encode(rpc) == Marshal(rpc) \o <<"\n">>

\* the position of token t in s, 0 when s does not hold it
IndexOf(s, t) == IF \E i \in 1..Len(s) : s[i] = t
                 THEN CHOOSE i \in 1..Len(s) : s[i] = t /\ \A j \in 1..(i - 1) : s[j] # t
                 ELSE 0

\* json.Unmarshal of the wire form into an envelope whose Params has the given
\* kind: a key the text does not hold leaves the zero value of its field
Unmarshal(data, kind) ==
    LET m  == IndexOf(data, "{\"method\":\"")
        p  == IndexOf(data, ",\"params\":")
        i  == IndexOf(data, ",\"id\":")
        v  == IndexOf(data, ",\"jsonrpc\":\"")
        id == SubSeq(data, i + 1, v - 1)
    IN  [Method  |-> IF m = 0 THEN "" ELSE data[m + 1],
         Params  |-> IF p = 0 THEN "nil" ELSE data[p + 1],
         ID      |-> IF i = 0 \/ id = <<>> THEN StringID(<<>>)
                     ELSE IF Head(id) = "\"" THEN StringID(SubSeq(id, 2, Len(id) - 1))
                     ELSE [t |-> "number", v |-> id],
         JSONRPC |-> IF v = 0 THEN "" ELSE data[v + 1],
         kind    |-> kind]

(***************************************************************************)
(* HTTP requests.                                                          *)
(***************************************************************************)
URLs == {"http://rpc.test", "://bad url"}

ParseURL(url) == url # "://bad url"      \* url.Parse succeeds

HeaderKeys == {"Content-Type", "Accept", "Authorization"}
NoHeader   == [k \in HeaderKeys |-> ""]  \* "" stands for an absent key

\* textproto.CanonicalMIMEHeaderKey, which Header.Set applies to its key
CanonicalHeaderKey(k) ==
    CASE k = "content-type"  -> "Content-Type"
      [] k = "authorization" -> "Authorization"
      [] k = "accept"        -> "Accept"
      [] OTHER               -> k

HeaderSet(h, k, v) == [h EXCEPT ![CanonicalHeaderKey(k)] = v]

NoRequest == [Method |-> "", URL |-> "", Header |-> NoHeader, ContentLength |-> 0,
              Body |-> <<>>, ctx |-> "background"]

\* http.NewRequestWithContext(ctx, method, url, body) for a *bytes.Buffer or
\* *bytes.Reader body: ContentLength is taken from the body
NewRequestWithContext(ctx, method, url, body) ==
    [Method |-> method, URL |-> url, Header |-> NoHeader, ContentLength |-> Len(body),
     Body |-> body, ctx |-> ctx]

(***************************************************************************)
(* Options.  An option is a closure; op names the function that built it   *)
(* (or "func" for a closure the caller wrote), type its dynamic Go type.   *)
(***************************************************************************)
Option(op, type, key, value, n) ==
    [op |-> op, type |-> type, key |-> key, value |-> value, n |-> n]

\* WithContext assigning its parameter: r = r.WithContext(ctx)
WithContextLocal(ctx, r) == r

\* WithContext(ctx): *r = *r.WithContext(ctx)
WithContext(ctx, r) == [r EXCEPT !.ctx = ctx]

\* WithContentType(contentType): r.Header.Set("Content-Type", contentType)
WithContentType(contentType, r) ==
    [r EXCEPT !.Header = HeaderSet(@, "Content-Type", contentType)]

\* WithHeader(key, value): r.Header.Set(key, value)
WithHeader(key, value, r) == [r EXCEPT !.Header = HeaderSet(@, key, value)]

\* SetHeader(key, value): in.Header.Set(key, value)
SetHeader(key, value, in) == [in EXCEPT !.Header = HeaderSet(@, key, value)]

\* UseContext(ctx): in = in.WithContext(ctx) assigns the closure's parameter;
\* the request the caller holds is the one passed in
UseContext(ctx, in) == in

\* UseClient(cli): in = cli assigns the closure's parameter; the client the
\* caller holds is the one passed in.  cls is the state of all clients, in
\* the client the closure is invoked on.
UseClient(cli, cls, in) == cls

\* a caller's closure func(c *http.Client) { c.Timeout = n }
SetTimeout(n, cls, in) == [cls EXCEPT ![in].Timeout = n]

IsRequestOp(o) == o.op \in {"WithContext", "WithContentType", "WithHeader",
                            "SetHeader", "UseContext", "func-header"}
IsClientOp(o)  == o.op \in {"UseClient", "func-timeout"}

\* v(req) for a request mutator v
CallRequestOption(o, r) ==
    CASE o.op = "WithContext"     -> WithContext(o.value, r)
      [] o.op = "WithContentType" -> WithContentType(o.value, r)
      [] o.op = "WithHeader"      -> WithHeader(o.key, o.value, r)
      [] o.op = "SetHeader"       -> SetHeader(o.key, o.value, r)
      [] o.op = "UseContext"      -> UseContext(o.value, r)
      [] o.op = "func-header"     -> [r EXCEPT !.Header = HeaderSet(@, o.key, o.value)]
      [] OTHER                    -> r

\* v(cl) for a client mutator v
CallClientOption(o, cls, cl) ==
    CASE o.op = "UseClient"    -> UseClient(o.value, cls, cl)
      [] o.op = "func-timeout" -> SetTimeout(o.n, cls, cl)
      [] OTHER                 -> cls

(***************************************************************************)
(* Responses.  The transport returns an error, or a status and a body.     *)
(***************************************************************************)
Statuses == {199, 200, 299, 300}

\* a response body: syntax says whether it is JSON at all, resultType the JSON
\* type of "result" ("absent" when the key is missing), error the "error" key
Body(syntax, resultType, result, error, code, message) ==
    [syntax |-> syntax, resultType |-> resultType, result |-> result,
     error |-> error, code |-> code, message |-> message]

Bodies == {
    Body(FALSE, "absent", 0, "absent", 0, ""),           \* {not-json
    Body(TRUE, "string", 0, "absent", 0, ""),            \* {"result":"x"}  for an int result
    Body(TRUE, "number", 3, "absent", 0, ""),            \* {"result":3}
    Body(TRUE, "absent", 0, "object", -32000, "boom"),   \* {"error":{...}}
    Body(TRUE, "number", 3, "object", 123, "bad"),       \* {"result":3,"error":{...}}
    Body(TRUE, "number", 3, "null", 0, "") }             \* {"result":3,"error":null}

NoBody == Body(FALSE, "absent", 0, "absent", 0, "")

\* read tells how reading the body ends: "whole" at its end, "cut" by a
\* failure in the middle of the JSON value, "reset" by a failure after the
\* value and before the end of the body
Response(err, status, body) ==
    [err |-> err, StatusCode |-> status, Body |-> body, read |-> "whole"]

NoResponse == Response(NilErr, 0, NoBody)

Is2xx(s) == 200 <= s /\ s <= 299

\* the error of http.Client.Do: Post "<url>": <cause>
DoError(url, cause) == NewError(<<"Post \"", url, "\": ", cause>>)

\* Decode(&result) into RPCResponse[int]: the error of the decoder, and the
\* envelope it filled
Decode(body) ==
    IF ~body.syntax
    THEN [err |-> NewError(<<"syntax error">>), Result |-> 0, Error |-> NilErr]
    ELSE IF body.resultType = "string"
    THEN [err |-> NewError(<<"mismatched type">>), Result |-> 0, Error |-> NilErr]
    ELSE [err |-> NilErr,
          Result |-> IF body.resultType = "number" THEN body.result ELSE 0,
          Error |-> IF body.error = "object" THEN RPCError(body.code, body.message)
                    ELSE NilErr]

\* what Execute hands back: the result pointer and the error, and whether the
\* body was decoded, and how often it was closed
Return(result, err, decoded, closed) ==
    [result |-> result, err |-> err, decoded |-> decoded, closed |-> closed]

NoReturn == Return(NilResult, NilErr, FALSE, 0)

SeqsUpTo(S, n) == UNION {[1..k -> S] : k \in 0..n}

(***************************************************************************)
(* The record of a call.  pc is "idle" between calls, "built" once         *)
(* the envelope exists, "prepared" once Prepare returned, "inflight" while *)
(* the call is inside http.Client.Do, "done" once Execute returned.  args  *)
(* are the method and the params NewRequest was called with, ropts its     *)
(* options, opts the options of Prepare or of Execute(ctx, url, opts...),  *)
(* eopts those of the Execute of a prepared request, invoked the options   *)
(* Execute called.                                                         *)
(***************************************************************************)
NoEnvelope == [Method |-> "", Params |-> "nil", ID |-> StringID(<<>>), JSONRPC |-> "",
               kind |-> "interface"]
NoDo       == [called |-> FALSE, via |-> "nil", Timeout |-> 0]
NoArgs     == [method |-> "", params |-> "nil"]

EmptyCall ==
    [pc |-> "idle", url |-> "", ctx |-> "background", ropts |-> <<>>, opts |-> <<>>,
     client |-> "nil", eopts |-> <<>>, invoked |-> <<>>, args |-> NoArgs,
     rpc |-> NoEnvelope,
     req |-> NoRequest, hasReq |-> FALSE, err |-> NilErr,
     do |-> NoDo, resp |-> NoResponse, ret |-> NoReturn]

\* the errors of the encoder and of url.Parse
EncodeError   == NewError(<<"unsupported type">>)
URLError(url) == NewError(<<"parse \"", url, "\": ", "missing protocol scheme">>)

\* what the code before Do produced: either an error to return, or the
\* request to send, the client to send it through and the clients as the
\* options left them; buf is the buffer the code encoded into and rpc the
\* envelope as the code left it, for the revisions that take the buffer from
\* the pool
Failed(err)        == [ok |-> FALSE, err |-> err, req |-> NoRequest, via |-> "nil",
                       buf |-> [data |-> <<>>, reader |-> FALSE], rpc |-> NoEnvelope]
Ready(req, via)    == [ok |-> TRUE, err |-> NilErr, req |-> req, via |-> via,
                       buf |-> [data |-> <<>>, reader |-> FALSE], rpc |-> NoEnvelope]

(***************************************************************************)
(* The buffer pool of execute.go and part_001.  A buffer is its unread     *)
(* bytes and whether a goroutine of the transport still reads it: the      *)
(* body of the request is the buffer itself, and the transport may go on   *)
(* reading the body of a request after Do has returned an error for it.    *)
(***************************************************************************)
NewBuffer == [data |-> <<>>, reader |-> FALSE]      \* bufferPool.New

\* bufferPool.Get(): a buffer at rest, or a new one when there is none
Get(pool) == IF pool = {} THEN {NewBuffer} ELSE pool

\* bufferPool.Put(b)
\* sync.Pool is free to drop a buffer at rest; the runs followed are those in
\* which it keeps the buffer put last
Put(pool, b) == {b}

\* buf.Reset()
Reset(b) == [b EXCEPT !.data = <<>>]

\* writing bytes to b.  When a goroutine still reads b the two race; race
\* says the reader took the first of the bytes before they were looked at.
Write(b, bytes, race) ==
    [b EXCEPT !.data = IF race /\ @ \o bytes # <<>> THEN Tail(@ \o bytes) ELSE @ \o bytes,
              !.reader = IF race THEN FALSE ELSE @]

\* the ways the race of a write to b can go
Races(b) == IF b.reader THEN BOOLEAN ELSE {FALSE}

\* how much of the body of the request the transport had read when Do
\* returned resp: all of it for a response; nothing, or a part with the
\* write still going on, for an error
Sent(resp) ==
    IF resp.err.kind = "nil" THEN {"all"}
    ELSE IF Contains(resp.err.text, <<"connection refused">>) THEN {"none"}
    ELSE {"none", "part"}

\* the buffer of the request body as Do leaves it
AfterDo(body, sent) ==
    CASE sent = "all"  -> [data |-> <<>>, reader |-> FALSE]
      [] sent = "part" -> [data |-> body, reader |-> TRUE]
      [] OTHER         -> [data |-> body, reader |-> FALSE]

\* the outcomes http.Client.Do can have for a request sent with the given
\* timeout: an error of the transport, or a response.  A cancelled context
\* aborts the call.
DoOutcomes(req, timeout) ==
    IF ctxDone[req.ctx]
    THEN {Response(DoError(req.URL, "context canceled"), 0, NoBody)}
    ELSE {Response(DoError(req.URL, "connection refused"), 0, NoBody)}
         \cup (IF timeout > 0
               THEN {Response(DoError(req.URL, "Client.Timeout exceeded"), 0, NoBody)}
               ELSE {})
         \cup {Response(NilErr, s, b) : s \in Statuses, b \in Bodies}

(***************************************************************************)
(* data.go + execute.go: rpc.Execute(ctx, url, opts...)                    *)
(***************************************************************************)
\* the options a caller of Execute(ctx, url, opts...) passes: closures of the
\* named option types and plain functions
CallerOptions == {
    Option("func-header", "RequestOption", "Authorization", "token", 0),
    Option("func-header", "func(*http.Request)", "Authorization", "token", 0),
    Option("func-timeout", "ClientOption", "", "", OptTimeout),
    Option("func-timeout", "func(*http.Client)", "", "", OptTimeout) }

\* the outcome a of running the rest of an option loop, with v, which ran
\* before it, at the head of the options that were invoked
Invoked(v, a) == [a EXCEPT !.invoked = <<v>> \o @]

\* execute.go:43-50, the type switch over opts, applied to req and to cl
RECURSIVE ExecuteOptions(_, _, _, _)
ExecuteOptions(opts, req, cls, cl) ==
    IF opts = <<>> THEN [req |-> req, clients |-> cls, invoked |-> <<>>]
    ELSE LET v == Head(opts) IN
         CASE v.type = "RequestOption" ->
                Invoked(v, ExecuteOptions(Tail(opts), CallRequestOption(v, req), cls, cl))
           [] v.type = "ClientOption" ->
                Invoked(v, ExecuteOptions(Tail(opts), req, CallClientOption(v, cls, cl), cl))
           [] OTHER -> ExecuteOptions(Tail(opts), req, cls, cl)

\* execute.go:25-42, up to the choice of the client; got is the buffer Get
\* returned, race the way a race with a reader of got goes
ExecuteRequest(rpc, ctx, url, got, race) ==
    IF ~Encodable(rpc.Params)
    THEN [Failed(Wrap(EncodeError, "marshal request")) EXCEPT !.buf = Reset(got),
                                                               !.rpc = rpc]
    ELSE LET buf == Write(Reset(got), Encode(rpc), race) IN
         IF ~ParseURL(url)
         THEN [Failed(Wrap(URLError(url), "prepare req")) EXCEPT !.buf = buf,
                                                                  !.rpc = rpc]
         ELSE LET req == NewRequestWithContext(ctx, "POST", url, buf.data)
              IN  [Ready([req EXCEPT !.ContentLength = Len(buf.data),
                                     !.Header = HeaderSet(HeaderSet(@, "Content-Type",
                                                    "application/json"),
                                                    "Accept", "application/json")],
                         "http.DefaultClient") EXCEPT !.buf = buf, !.rpc = rpc]

\* ExecuteReturn without the check of result.Error
ExecuteReturnNoErrorCheck(resp) ==
    IF resp.err.kind # "nil"
    THEN Return(NilResult, Wrap(resp.err, "execute req"), FALSE, 0)
    ELSE IF resp.StatusCode < 200 \/ resp.StatusCode > 299
    THEN Return(NilResult, StatusError(resp.StatusCode), FALSE, 1)
    ELSE LET result == Decode(resp.Body) IN
         IF result.err.kind # "nil"
         THEN Return(NilResult, Wrap(result.err, "decode response"), TRUE, 1)
         ELSE Return(ResultPtr(result.Result), NilErr, TRUE, 1)

\* ExecuteReturn handing out a pointer to a zero value instead of the result
ExecuteReturnZeroResult(resp) ==
    IF resp.err.kind # "nil"
    THEN Return(NilResult, Wrap(resp.err, "execute req"), FALSE, 0)
    ELSE IF resp.StatusCode < 200 \/ resp.StatusCode > 299
    THEN Return(NilResult, StatusError(resp.StatusCode), FALSE, 1)
    ELSE LET result == Decode(resp.Body) IN
         IF result.err.kind # "nil"
         THEN Return(NilResult, Wrap(result.err, "decode response"), TRUE, 1)
         ELSE IF result.Error.kind # "nil"
         THEN Return(NilResult, result.Error, TRUE, 1)
         ELSE Return(ResultPtr(0), NilErr, TRUE, 1)

\* execute.go:52-78, from the return of cl.Do
ExecuteReturn(resp) ==
    IF resp.err.kind # "nil"
    THEN Return(NilResult, Wrap(resp.err, "execute req"), FALSE, 0)
    ELSE IF resp.StatusCode < 200 \/ resp.StatusCode > 299
    THEN Return(NilResult, StatusError(resp.StatusCode), FALSE, 1)
    ELSE LET result == Decode(resp.Body) IN
         IF result.err.kind # "nil"
         THEN Return(NilResult, Wrap(result.err, "decode response"), TRUE, 1)
         ELSE IF result.Error.kind # "nil"
         THEN Return(NilResult, result.Error, TRUE, 1)
         ELSE Return(ResultPtr(result.Result), NilErr, TRUE, 1)

(***************************************************************************)
(* data.go + executor.go: rpc.Execute(ctx, url, opts...)                   *)
(***************************************************************************)
\* ExecutorOptions without the case of the client mutators
RECURSIVE ExecutorOptionsNoClientCase(_, _, _)
ExecutorOptionsNoClientCase(opts, req, cls) ==
    IF opts = <<>> THEN [req |-> req, clients |-> cls, invoked |-> <<>>]
    ELSE LET v == Head(opts) IN
         CASE v.type = "func(*http.Request)" ->
                Invoked(v, ExecutorOptionsNoClientCase(Tail(opts),
                                                       CallRequestOption(v, req), cls))
           [] OTHER -> ExecutorOptionsNoClientCase(Tail(opts), req, cls)

\* executor.go:27-34, the type switch over opts
RECURSIVE ExecutorOptions(_, _, _)
ExecutorOptions(opts, req, cls) ==
    IF opts = <<>> THEN [req |-> req, clients |-> cls, invoked |-> <<>>]
    ELSE LET v == Head(opts) IN
         CASE v.type = "func(*http.Request)" ->
                Invoked(v, ExecutorOptions(Tail(opts), CallRequestOption(v, req), cls))
           [] v.type = "func(*http.Client)" ->
                Invoked(v, ExecutorOptions(Tail(opts), req,
                                CallClientOption(v, cls, "defaultHTTPClient")))
           [] OTHER -> ExecutorOptions(Tail(opts), req, cls)

\* executor.go:14-25
ExecutorRequest(rpc, ctx, url) ==
    IF ~Encodable(rpc.Params) THEN Failed(Wrap(EncodeError, "marshal request"))
    ELSE IF ~ParseURL(url) THEN Failed(Wrap(URLError(url), "prepare req"))
    ELSE LET rpcBytes == Marshal(rpc)
             req == NewRequestWithContext(ctx, "POST", url, rpcBytes)
         IN  Ready([req EXCEPT !.ContentLength = Len(rpcBytes),
                               !.Header = HeaderSet(HeaderSet(@, "Content-Type",
                                              "application/json"),
                                              "Accept", "application/json")],
                   "defaultHTTPClient")

\* ExecutorReturn with a status check that lets every status below 400 pass
ExecutorReturnBelow400(resp) ==
    IF resp.err.kind # "nil"
    THEN Return(NilResult, Wrap(resp.err, "execute req"), FALSE, 0)
    ELSE IF resp.StatusCode >= 400
    THEN Return(NilResult, StatusError(resp.StatusCode), FALSE, 0)
    ELSE LET result == Decode(resp.Body) IN
         IF result.err.kind # "nil"
         THEN Return(NilResult, Wrap(result.err, "decode response"), TRUE, 1)
         ELSE IF result.Error.kind # "nil"
         THEN Return(NilResult, result.Error, TRUE, 1)
         ELSE Return(ResultPtr(result.Result), NilErr, TRUE, 1)

\* ExecutorReturn reporting a failed decode without its cause
ExecutorReturnDropsCause(resp) ==
    IF resp.err.kind # "nil"
    THEN Return(NilResult, Wrap(resp.err, "execute req"), FALSE, 0)
    ELSE IF resp.StatusCode < 200 \/ resp.StatusCode > 299
    THEN Return(NilResult, StatusError(resp.StatusCode), FALSE, 0)
    ELSE LET result == Decode(resp.Body) IN
         IF result.err.kind # "nil"
         THEN Return(NilResult, NewError(<<"decode response">>), TRUE, 1)
         ELSE IF result.Error.kind # "nil"
         THEN Return(NilResult, result.Error, TRUE, 1)
         ELSE Return(ResultPtr(result.Result), NilErr, TRUE, 1)

\* executor.go:36-60, from the return of defaultHTTPClient.Do; the body is
\* closed by a defer that the status check returns ahead of
ExecutorReturn(resp) ==
    IF resp.err.kind # "nil"
    THEN Return(NilResult, Wrap(resp.err, "execute req"), FALSE, 0)
    ELSE IF resp.StatusCode < 200 \/ resp.StatusCode > 299
    THEN Return(NilResult, StatusError(resp.StatusCode), FALSE, 0)
    ELSE LET result == Decode(resp.Body) IN
         IF result.err.kind # "nil"
         THEN Return(NilResult, Wrap(result.err, "decode response"), TRUE, 1)
         ELSE IF result.Error.kind # "nil"
         THEN Return(NilResult, result.Error, TRUE, 1)
         ELSE Return(ResultPtr(result.Result), NilErr, TRUE, 1)

(***************************************************************************)
(* part_000 + part_001: rpc.Execute(url, opts...)                          *)
(***************************************************************************)
\* the options the package offers to callers of Execute(url, opts...), and a
\* caller's own client mutator
PooledOptions == {
    Option("UseClient", "func(*http.Client)", "", "custom", 0),
    Option("SetHeader", "func(*http.Request)", "Authorization", "token", 0),
    Option("UseContext", "func(*http.Request)", "", "ctx1", 0),
    Option("func-timeout", "func(*http.Client)", "", "", OptTimeout) }

\* part_001:57-64, the type switch over opts, applied to req and to cl
RECURSIVE PooledApply(_, _, _, _)
PooledApply(opts, req, cls, cl) ==
    IF opts = <<>> THEN [req |-> req, clients |-> cls, invoked |-> <<>>]
    ELSE LET v == Head(opts) IN
         CASE v.type = "func(*http.Request)" ->
                Invoked(v, PooledApply(Tail(opts), CallRequestOption(v, req), cls, cl))
           [] v.type = "func(*http.Client)" ->
                Invoked(v, PooledApply(Tail(opts), req, CallClientOption(v, cls, cl), cl))
           [] OTHER -> PooledApply(Tail(opts), req, cls, cl)

\* part_001:39-56; got is the buffer Get returned, race the way a race with
\* a reader of got goes
PooledRequest(rpc, url, got, race) ==
    IF ~Encodable(rpc.Params)
    THEN [Failed(Wrap(EncodeError, "marshal request")) EXCEPT !.buf = Reset(got),
                                                               !.rpc = rpc]
    ELSE LET buf == Write(Reset(got), Encode(rpc), race) IN
         IF ~ParseURL(url)
         THEN [Failed(Wrap(URLError(url), "prepare req")) EXCEPT !.buf = buf,
                                                                  !.rpc = rpc]
         ELSE LET req == NewRequestWithContext("background", "POST", url, buf.data)
              IN  [Ready([req EXCEPT !.ContentLength = Len(buf.data),
                                     !.Header = HeaderSet(HeaderSet(@, "Content-Type",
                                                    "application/json"),
                                                    "Accept", "application/json")],
                         "defaultHTTPClient") EXCEPT !.buf = buf, !.rpc = rpc]

\* the bytes of a response body
BodyText(b) ==
    IF ~b.syntax THEN <<"{not-json">>
    ELSE <<"{">>
         \o (CASE b.resultType = "number" -> <<"\"result\":">> \o FormatInt(b.result)
               [] b.resultType = "string" -> <<"\"result\":\"x\"">>
               [] OTHER                   -> <<>>)
         \o (CASE b.error = "object" ->
                    <<",\"error\":{\"code\":">> \o FormatInt(b.code)
                    \o <<",\"message\":\"", b.message, "\"}">>
               [] b.error = "null"   -> <<",\"error\":null">>
               [] OTHER              -> <<>>)
         \o <<"}">>

\* the responses whose body fails to be read to its end
BrokenBodies ==
    {[Response(NilErr, 200, Body(TRUE, "number", 3, "absent", 0, "")) EXCEPT !.read = r] :
        r \in {"cut", "reset"}}

\* part_001:92-103, readAll(resp.Body) with the buffer got that Get returned:
\* the error of ReadFrom is dropped, and what was read is copied out.  body is
\* the body as the copy shows it, buf the buffer that is put back.
readAll(resp, got, race) ==
    LET text == IF resp.read = "cut" THEN <<Head(BodyText(resp.Body))>>
                ELSE BodyText(resp.Body)
        buf  == Write(Reset(got), text, race)
    IN  [body |-> IF buf.data = BodyText(resp.Body) THEN resp.Body
                  ELSE [resp.Body EXCEPT !.syntax = FALSE],
         buf  |-> buf]

\* PooledReturn labelling the protocol error with a stage
PooledReturnLabelsRPCError(resp) ==
    IF resp.err.kind # "nil"
    THEN Return(NilResult, Wrap(resp.err, "execute req"), FALSE, 0)
    ELSE IF resp.StatusCode < 200 \/ resp.StatusCode > 299
    THEN Return(NilResult, StatusError(resp.StatusCode), FALSE, 1)
    ELSE LET result == Decode(resp.Body) IN
         IF result.err.kind # "nil"
         THEN Return(NilResult, Wrap(result.err, "decode response"), TRUE, 1)
         ELSE IF result.Error.kind # "nil"
         THEN Return(NilResult,
                     NewError(<<"rpc error", ": ">> \o ErrorString(result.Error)), TRUE, 1)
         ELSE Return(ResultPtr(result.Result), NilErr, TRUE, 1)

\* part_001:66-89, from the return of cl.Do
PooledReturn(resp) ==
    IF resp.err.kind # "nil"
    THEN Return(NilResult, Wrap(resp.err, "execute req"), FALSE, 0)
    ELSE IF resp.StatusCode < 200 \/ resp.StatusCode > 299
    THEN Return(NilResult, StatusError(resp.StatusCode), FALSE, 1)
    ELSE LET result == Decode(resp.Body) IN
         IF result.err.kind # "nil"
         THEN Return(NilResult, Wrap(result.err, "decode response"), TRUE, 1)
         ELSE IF result.Error.kind # "nil"
         THEN Return(NilResult, result.Error, TRUE, 1)
         ELSE Return(ResultPtr(result.Result), NilErr, TRUE, 1)

(***************************************************************************)
(* client.go: Prepare(ctx, url, method, params) and Execute[Result](req)   *)
(***************************************************************************)
\* client.go:37-44
createRequest(method, params, clock) ==
    [Method |-> method, Params |-> params, ID |-> NumberID(clock), JSONRPC |-> "2.0",
     kind |-> "slice"]

\* client.go:48-62
ClientPrepare(ctx, url, method, params, clock) ==
    IF ~Encodable(params) THEN Failed(Wrap(EncodeError, "encode request"))
    ELSE IF ~ParseURL(url) THEN Failed(Wrap(URLError(url), "new request"))
    ELSE Ready(NewRequestWithContext(ctx, "POST", url,
                                     Encode(createRequest(method, params, clock))),
               "http.DefaultClient")

\* ClientReturn handing out the partly filled result next to a decode error
ClientReturnPartial(resp) ==
    IF resp.err.kind # "nil"
    THEN Return(NilResult, Wrap(resp.err, "execute request"), FALSE, 0)
    ELSE LET result == Decode(resp.Body) IN
         IF result.err.kind # "nil"
         THEN Return(ResultPtr(result.Result), Wrap(result.err, "decode response"),
                     TRUE, 1)
         ELSE IF result.Error.kind # "nil"
         THEN Return(NilResult, result.Error, TRUE, 1)
         ELSE Return(ResultPtr(result.Result), NilErr, TRUE, 1)

\* client.go:65-85, from the return of http.DefaultClient.Do
ClientReturn(resp) ==
    IF resp.err.kind # "nil"
    THEN Return(NilResult, Wrap(resp.err, "execute request"), FALSE, 0)
    ELSE LET result == Decode(resp.Body) IN
         IF result.err.kind # "nil"
         THEN Return(NilResult, Wrap(result.err, "decode response"), TRUE, 1)
         ELSE IF result.Error.kind # "nil"
         THEN Return(NilResult, result.Error, TRUE, 1)
         ELSE Return(ResultPtr(result.Result), NilErr, TRUE, 1)

(***************************************************************************)
(* request.go + part_006: req.Prepare(url, opts...), and the Execute of    *)
(* the prepared request.                                                   *)
(***************************************************************************)
PrepareOptions == {
    Option("WithContext", "PrepareOpt", "", "ctx1", 0),
    Option("WithContentType", "PrepareOpt", "", "application/custom-json", 0),
    Option("WithHeader", "PrepareOpt", "authorization", "token", 0),
    Option("WithHeader", "PrepareOpt", "Authorization", "other", 0) }

\* the options applied from the last to the first
RECURSIVE PrepareApplyReversed(_, _)
PrepareApplyReversed(opts, req) ==
    IF opts = <<>> THEN req
    ELSE CallRequestOption(Head(opts), PrepareApplyReversed(Tail(opts), req))

\* part_006:48-50
RECURSIVE PrepareApply(_, _)
PrepareApply(opts, req) ==
    IF opts = <<>> THEN req
    ELSE PrepareApply(Tail(opts), CallRequestOption(Head(opts), req))

\* Prepare that returns an empty prepared request when the URL does not parse
PrepareDropsURLError(r, url, opts) ==
    IF ~Encodable(r.Params)
    THEN [ok |-> FALSE, internal |-> NoRequest,
          err |-> Wrap(EncodeError, "encode request data"),
          invoked |-> <<>>, rpc |-> r]
    ELSE IF ~ParseURL(url)
    THEN [ok |-> FALSE, internal |-> NoRequest, err |-> NilErr,
          invoked |-> <<>>, rpc |-> r]
    ELSE LET buff == Encode(r)
             req  == NewRequestWithContext("background", "POST", url, buff)
         IN  [ok |-> TRUE,
              internal |-> PrepareApply(opts,
                              [req EXCEPT !.Header = HeaderSet(@, "Content-Type",
                                                               "application/json")]),
              err |-> NilErr,
              invoked |-> opts, rpc |-> r]

\* Prepare that hands its buffer the params of the envelope and leaves the
\* envelope without them
PrepareTakesParams(r, url, opts) ==
    IF ~Encodable(r.Params)
    THEN [ok |-> FALSE, internal |-> NoRequest,
          err |-> Wrap(EncodeError, "encode request data"),
          invoked |-> <<>>, rpc |-> r]
    ELSE IF ~ParseURL(url)
    THEN [ok |-> FALSE, internal |-> NoRequest,
          err |-> Wrap(URLError(url), "create http request"),
          invoked |-> <<>>, rpc |-> r]
    ELSE LET buff == Encode(r)
             req  == NewRequestWithContext("background", "POST", url, buff)
         IN  [ok |-> TRUE,
              internal |-> PrepareApply(opts,
                              [req EXCEPT !.Header = HeaderSet(@, "Content-Type",
                                                               "application/json")]),
              err |-> NilErr,
              invoked |-> opts, rpc |-> [r EXCEPT !.Params = "nil"]]

\* Prepare that returns the request next to the error of a URL that does not
\* parse, the options applied to it
PrepareKeepsRequest(r, url, opts) ==
    IF ~Encodable(r.Params)
    THEN [ok |-> FALSE, internal |-> NoRequest,
          err |-> Wrap(EncodeError, "encode request data"),
          invoked |-> <<>>, rpc |-> r]
    ELSE LET buff == Encode(r)
             req  == NewRequestWithContext("background", "POST", url, buff)
         IN  [ok |-> TRUE,
              internal |-> PrepareApply(opts,
                              [req EXCEPT !.Header = HeaderSet(@, "Content-Type",
                                                               "application/json")]),
              err |-> IF ParseURL(url) THEN NilErr
                      ELSE Wrap(URLError(url), "create http request"),
              invoked |-> opts, rpc |-> r]

\* part_006:32-53; a praparedRPCRequest holds internal (ok says it is set) or
\* err.  invoked are the options Prepare called, in the order of the calls,
\* and rpc is the envelope as Prepare leaves it.
Prepare(r, url, opts) ==
    IF ~Encodable(r.Params)
    THEN [ok |-> FALSE, internal |-> NoRequest,
          err |-> Wrap(EncodeError, "encode request data"),
          invoked |-> <<>>, rpc |-> r]
    ELSE IF ~ParseURL(url)
    THEN [ok |-> FALSE, internal |-> NoRequest,
          err |-> Wrap(URLError(url), "create http request"),
          invoked |-> <<>>, rpc |-> r]
    ELSE LET buff == Encode(r)
             req  == NewRequestWithContext("background", "POST", url, buff)
         IN  [ok |-> TRUE,
              internal |-> PrepareApply(opts,
                              [req EXCEPT !.Header = HeaderSet(@, "Content-Type",
                                                               "application/json")]),
              err |-> NilErr,
              invoked |-> opts, rpc |-> r]

\* the client options a caller passes to the Execute of a prepared request
ExecuteOpts == {
    Option("func-timeout", "ExecuteOpt", "", "", OptTimeout),
    Option("func-timeout", "ExecuteOpt", "", "", ExecTimeout) }

\* Execute of a prepared request, step 2: the caller's client if given, else
\* the shared default
SelectClient(client) == IF client = "nil" THEN "defaultHTTPClient" ELSE client

\* Execute of a prepared request, step 3
RECURSIVE PreparedApply(_, _, _)
PreparedApply(opts, cls, cl) ==
    IF opts = <<>> THEN [clients |-> cls, invoked |-> <<>>]
    ELSE Invoked(Head(opts),
                 PreparedApply(Tail(opts), CallClientOption(Head(opts), cls, cl), cl))

\* Execute of a prepared request, steps 4-8, from the return of the transport
PreparedReturn(resp) ==
    IF resp.err.kind # "nil"
    THEN Return(NilResult, Wrap(resp.err, "execute request"), FALSE, 0)
    ELSE IF resp.StatusCode < 200 \/ resp.StatusCode > 299
    THEN Return(NilResult, StatusError(resp.StatusCode), FALSE, 1)
    ELSE LET result == Decode(resp.Body) IN
         IF result.err.kind # "nil"
         THEN Return(NilResult, Wrap(result.err, "decode response"), TRUE, 1)
         ELSE IF result.Error.kind # "nil"
         THEN Return(NilResult, result.Error, TRUE, 1)
         ELSE Return(ResultPtr(result.Result), NilErr, TRUE, 1)

(***************************************************************************)
(* The state machine.                                                      *)
(***************************************************************************)
Init ==
    /\ version \in Versions
    /\ call = EmptyCall
    /\ clients = InitClients
    /\ ctxDone = [c \in Contexts |-> FALSE]
    /\ now = 0
    /\ bufferPool = {}

\* the clock advances
Tick ==
    /\ now < MaxClock
    /\ now' = now + 1
    /\ UNCHANGED <<version, bufferPool, call, clients, ctxDone>>

\* a goroutine of the transport that went on reading the body of a request
\* after Do returned gives up
WriterExit ==
    /\ \E b \in bufferPool :
         /\ b.reader
         /\ bufferPool' = (bufferPool \ {b}) \cup {[b EXCEPT !.reader = FALSE]}
    /\ UNCHANGED <<version, call, clients, ctxDone, now>>

\* the caller cancels its context
Cancel ==
    /\ ~ctxDone["ctx1"]
    /\ ctxDone' = [ctxDone EXCEPT !["ctx1"] = TRUE]
    /\ UNCHANGED <<version, bufferPool, call, clients, now>>

\* a call that returns before it reaches the transport
ReturnEarly(c, err) ==
    /\ call' = [c EXCEPT !.pc = "done", !.ret = Return(NilResult, err, FALSE, 0)]
    /\ UNCHANGED clients

\* a call that enters http.Client.Do of client via; cls are the clients as
\* the options left them
EnterDo(c, req, via, cls) ==
    /\ call' = [c EXCEPT !.pc = "inflight", !.req = req, !.hasReq = TRUE,
                         !.do = [called |-> TRUE, via |-> via,
                                 Timeout |-> cls[via].Timeout]]
    /\ clients' = cls

\* data.go:33-40 (part_000:31-38): the caller builds an envelope
Create ==
    /\ version \in {"execute", "executor", "pooled"}
    /\ call.pc = "idle"
    /\ \E params \in Params :
         call' = [EmptyCall EXCEPT !.pc = "built",
                                   !.rpc = CreateRequest("sum", params, now)]
    /\ UNCHANGED <<version, bufferPool, clients, ctxDone, now>>

\* the caller is through with an envelope it did not send or with a finished
\* call; the envelope built last stays behind in rpc
Release ==
    /\ call.pc \in {"built", "done"}
    /\ call' = [EmptyCall EXCEPT !.rpc = call.rpc]
    /\ UNCHANGED <<version, bufferPool, clients, ctxDone, now>>

\* the caller keeps the envelope of a finished call for another call
Again ==
    /\ version \in {"execute", "executor", "pooled", "prepare"}
    /\ call.pc = "done"
    /\ call' = [EmptyCall EXCEPT !.pc = "built", !.rpc = call.rpc, !.ropts = call.ropts]
    /\ UNCHANGED <<version, bufferPool, clients, ctxDone, now>>

\* execute.go:24-52: Execute up to cl.Do(req)
ExecuteBegin ==
    /\ version = "execute"
    /\ call.pc = "built"
    /\ \E url \in URLs, ctx \in Contexts, opts \in SeqsUpTo(CallerOptions, MaxOpts) :
       \E got \in Get(bufferPool) : \E race \in Races(got) :
         LET r == ExecuteRequest(call.rpc, ctx, url, got, race)
             c == [EmptyCall EXCEPT !.rpc = r.rpc, !.url = url, !.ctx = ctx,
                                    !.opts = opts]
             a == ExecuteOptions(opts, r.req, clients, r.via)
         IN  IF r.ok
             THEN /\ EnterDo([c EXCEPT !.invoked = a.invoked], a.req, r.via, a.clients)
                  /\ bufferPool' = bufferPool \ {got}
             ELSE /\ ReturnEarly(c, r.err)
                  /\ bufferPool' = Put(bufferPool \ {got}, r.buf)
    /\ UNCHANGED <<version, ctxDone, now>>

\* execute.go:52-79: cl.Do returns, Execute returns
ExecuteEnd ==
    /\ version = "execute"
    /\ call.pc = "inflight"
    /\ \E resp \in DoOutcomes(call.req, call.do.Timeout) : \E sent \in Sent(resp) :
         /\ call' = [call EXCEPT !.pc = "done", !.resp = resp,
                                  !.ret = ExecuteReturn(resp)]
         /\ bufferPool' = Put(bufferPool, AfterDo(call.req.Body, sent))
    /\ UNCHANGED <<version, clients, ctxDone, now>>

\* executor.go:13-36: Execute up to defaultHTTPClient.Do(req)
ExecutorBegin ==
    /\ version = "executor"
    /\ call.pc = "built"
    /\ \E url \in URLs, ctx \in Contexts, opts \in SeqsUpTo(CallerOptions, MaxOpts) :
         LET c == [EmptyCall EXCEPT !.rpc = call.rpc, !.url = url, !.ctx = ctx,
                                    !.opts = opts]
             r == ExecutorRequest(call.rpc, ctx, url)
             a == ExecutorOptions(opts, r.req, clients)
         IN  IF r.ok THEN EnterDo([c EXCEPT !.invoked = a.invoked], a.req, r.via, a.clients)
             ELSE ReturnEarly(c, r.err)
    /\ UNCHANGED <<version, bufferPool, ctxDone, now>>

\* executor.go:36-61
ExecutorEnd ==
    /\ version = "executor"
    /\ call.pc = "inflight"
    /\ \E resp \in DoOutcomes(call.req, call.do.Timeout) :
         call' = [call EXCEPT !.pc = "done", !.resp = resp, !.ret = ExecutorReturn(resp)]
    /\ UNCHANGED <<version, bufferPool, clients, ctxDone, now>>

\* part_001:38-66: Execute up to cl.Do(req)
PooledBegin ==
    /\ version = "pooled"
    /\ call.pc = "built"
    /\ \E url \in URLs, opts \in SeqsUpTo(PooledOptions, MaxOpts) :
       \E got \in Get(bufferPool) : \E race \in Races(got) :
         LET r == PooledRequest(call.rpc, url, got, race)
             c == [EmptyCall EXCEPT !.rpc = r.rpc, !.url = url, !.opts = opts]
             a == PooledApply(opts, r.req, clients, r.via)
         IN  IF r.ok
             THEN /\ EnterDo([c EXCEPT !.invoked = a.invoked], a.req, r.via, a.clients)
                  /\ bufferPool' = bufferPool \ {got}
             ELSE /\ ReturnEarly(c, r.err)
                  /\ bufferPool' = Put(bufferPool \ {got}, r.buf)
    /\ UNCHANGED <<version, ctxDone, now>>

\* part_001:66-90
PooledEnd ==
    /\ version = "pooled"
    /\ call.pc = "inflight"
    /\ \E resp \in DoOutcomes(call.req, call.do.Timeout) \cup BrokenBodies :
       \E sent \in Sent(resp) :
         IF resp.err.kind = "nil" /\ Is2xx(resp.StatusCode)
         THEN \E got \in Get(bufferPool) : \E race \in Races(got) :
                LET read == readAll(resp, got, race) IN
                /\ call' = [call EXCEPT !.pc = "done", !.resp = resp,
                                !.ret = PooledReturn([resp EXCEPT !.Body = read.body])]
                /\ bufferPool' = Put(Put(bufferPool \ {got}, read.buf),
                                     AfterDo(call.req.Body, sent))
         ELSE /\ call' = [call EXCEPT !.pc = "done", !.resp = resp,
                                  !.ret = PooledReturn(resp)]
              /\ bufferPool' = Put(bufferPool, AfterDo(call.req.Body, sent))
    /\ UNCHANGED <<version, clients, ctxDone, now>>

\* client.go:48-62: Prepare returns the request or an error to the caller
ClientPrepareCall ==
    /\ version = "client"
    /\ call.pc = "idle"
    /\ \E url \in URLs, ctx \in Contexts, params \in TypedParams :
         LET p == ClientPrepare(ctx, url, "sum", params, now)
         IN  call' = [EmptyCall EXCEPT !.pc = "prepared", !.url = url, !.ctx = ctx,
                          !.rpc = createRequest("sum", params, now),
                          !.req = p.req, !.hasReq = p.ok, !.err = p.err]
    /\ UNCHANGED <<version, bufferPool, clients, ctxDone, now>>

\* client.go:64-65: Execute up to http.DefaultClient.Do(request)
ClientBegin ==
    /\ version = "client"
    /\ call.pc = "prepared"
    /\ call.hasReq
    /\ EnterDo(call, call.req, "http.DefaultClient", clients)
    /\ UNCHANGED <<version, bufferPool, ctxDone, now>>

\* client.go:65-86
ClientEnd ==
    /\ version = "client"
    /\ call.pc = "inflight"
    /\ \E resp \in DoOutcomes(call.req, call.do.Timeout) :
         call' = [call EXCEPT !.pc = "done", !.resp = resp, !.ret = ClientReturn(resp)]
    /\ UNCHANGED <<version, bufferPool, clients, ctxDone, now>>

\* request.go:31-44: the caller builds an envelope.  What Prepare and Execute
\* do with an envelope depends on whether it can be encoded and on nothing
\* else of it, so the process that goes on to send its envelopes builds them
\* without options; the process that only builds them explores the options.
NewRequestCall ==
    /\ version \in {"prepare", "request"}
    /\ call.pc = "idle"
    /\ \E params \in (IF version = "request" THEN TypedParams ELSE Params),
          ropts \in SeqsUpTo(RPCOpts, IF version = "request" THEN MaxOpts ELSE 0) :
         call' = [EmptyCall EXCEPT !.pc = "built", !.ropts = ropts,
                                   !.args = [method |-> "sum", params |-> params],
                                   !.rpc = NewRequest("sum", params, ropts, now)]
    /\ UNCHANGED <<version, bufferPool, clients, ctxDone, now>>

\* part_006:32-53: Prepare returns the prepared request
PrepareCall ==
    /\ version = "prepare"
    /\ call.pc = "built"
    /\ \E url \in URLs, opts \in SeqsUpTo(PrepareOptions, MaxOpts - Len(call.ropts)) :
         LET p == Prepare(call.rpc, url, opts)
         IN  call' = [EmptyCall EXCEPT !.pc = "prepared", !.rpc = p.rpc,
                          !.ropts = call.ropts, !.url = url, !.opts = opts,
                          !.invoked = p.invoked,
                          !.req = p.internal, !.hasReq = p.ok, !.err = p.err]
    /\ UNCHANGED <<version, bufferPool, clients, ctxDone, now>>

\* Execute of the prepared request, steps 1-4, up to the transport
PreparedBegin ==
    /\ version = "prepare"
    /\ call.pc = "prepared"
    /\ \E client \in {"nil", "custom"},
          eopts \in SeqsUpTo(ExecuteOpts, MaxOpts - Len(call.ropts) - Len(call.opts)) :
         LET c   == [call EXCEPT !.client = client, !.eopts = eopts]
             via == SelectClient(client)
             a   == PreparedApply(eopts, clients, via)
         IN  IF call.err.kind # "nil"
             THEN ReturnEarly(c, Wrap(call.err, "execute prepared request"))
             ELSE EnterDo([c EXCEPT !.invoked = a.invoked], call.req, via, a.clients)
    /\ UNCHANGED <<version, bufferPool, ctxDone, now>>

\* Execute of the prepared request, steps 4-8
PreparedEnd ==
    /\ version = "prepare"
    /\ call.pc = "inflight"
    /\ \E resp \in DoOutcomes(call.req, call.do.Timeout) :
         call' = [call EXCEPT !.pc = "done", !.resp = resp, !.ret = PreparedReturn(resp)]
    /\ UNCHANGED <<version, bufferPool, clients, ctxDone, now>>

Next ==
    \/ Tick
    \/ Cancel
    \/ WriterExit
    \/ Create
    \/ Release
    \/ Again
    \/ ExecuteBegin
    \/ ExecuteEnd
    \/ ExecutorBegin
    \/ ExecutorEnd
    \/ PooledBegin
    \/ PooledEnd
    \/ ClientPrepareCall
    \/ ClientBegin
    \/ ClientEnd
    \/ NewRequestCall
    \/ PrepareCall
    \/ PreparedBegin
    \/ PreparedEnd

Spec == Init /\ [][Next]_vars

(***************************************************************************)
(* The process that links request.go + part_006 alone.  The ids of the     *)
(* envelopes play no part in what Prepare and Execute do, so the clock is  *)
(* left where it is.                                                       *)
(***************************************************************************)
InitPrepare == Init /\ version = "prepare"

NextPrepare ==
    \/ Cancel
    \/ NewRequestCall
    \/ Release
    \/ Again
    \/ PrepareCall
    \/ PreparedBegin
    \/ PreparedEnd

PrepareSpec == InitPrepare /\ [][NextPrepare]_vars

\* the transport observes the cancellation of the context of a request
FairSpec == PrepareSpec /\ WF_vars(PreparedEnd /\ ctxDone[call.req.ctx])

(***************************************************************************)
(* The process that links request.go alone and builds envelopes.           *)
(***************************************************************************)
InitRequest == Init /\ version = "request"

NextRequest ==
    \/ Tick
    \/ NewRequestCall
    \/ Release

RequestSpec == InitRequest /\ [][NextRequest]_vars

(***************************************************************************)
(* Properties.                                                             *)
(***************************************************************************)
DigitTokens == {"0", "1", "2", "3", "4", "5", "6", "7", "8", "9"}

DigitValue(t) == CASE t = "0" -> 0 [] t = "1" -> 1 [] t = "2" -> 2 [] t = "3" -> 3
                   [] t = "4" -> 4 [] t = "5" -> 5 [] t = "6" -> 6 [] t = "7" -> 7
                   [] t = "8" -> 8 [] t = "9" -> 9

\* the number a run of decimal digits denotes
RECURSIVE ParseDecimal(_)
ParseDecimal(s) ==
    IF s = <<>> THEN 0
    ELSE ParseDecimal(SubSeq(s, 1, Len(s) - 1)) * 10 + DigitValue(s[Len(s)])

\* text holds prefix followed by the decimal numeral of n
HoldsNumberAfter(text, prefix, n) ==
    \E i \in 1..Len(text) : \E j \in (i + 1)..Len(text) :
        /\ text[i] = prefix
        /\ \A k \in (i + 1)..j : text[k] \in DigitTokens
        /\ j = Len(text) \/ text[j + 1] \notin DigitTokens
        /\ ParseDecimal(SubSeq(text, i + 1, j)) = n

Returned  == call.pc = "done"
Responded == call.pc = "done" /\ call.do.called /\ call.resp.err.kind = "nil"

\* the body is an envelope of the expected shape whose error key holds an object
ErrorEnvelope(b) == b.syntax /\ b.resultType # "string" /\ b.error = "object"

\* C1: in execute.go and executor.go, a 2xx response whose envelope has its
\* error field populated makes Execute return exactly that protocol error and
\* a nil result, whatever the result field holds.
C1_ProtocolErrorWins ==
    (/\ version \in {"execute", "executor"}
     /\ Responded
     /\ Is2xx(call.resp.StatusCode)
     /\ ErrorEnvelope(call.resp.Body))
    => /\ call.ret.result = NilResult
       /\ call.ret.err = RPCError(call.resp.Body.code, call.resp.Body.message)

C1_Witness ==
    /\ version \in {"execute", "executor"}
    /\ Responded
    /\ Is2xx(call.resp.StatusCode)
    /\ ErrorEnvelope(call.resp.Body)
    /\ call.resp.Body.resultType = "number" /\ call.resp.Body.result # 0
    /\ call.ret.err.kind = "rpc"

\* C2: in execute.go and executor.go, a status outside 200..299 makes Execute
\* return a nil result and an error whose message holds "http status "
\* followed by the decimal status, and the body is never decoded.
C2_StatusError ==
    (/\ version \in {"execute", "executor"}
     /\ Responded
     /\ ~Is2xx(call.resp.StatusCode))
    => /\ call.ret.result = NilResult
       /\ call.ret.err.kind = "eris"
       /\ HoldsNumberAfter(ErrorString(call.ret.err), "http status ",
                           call.resp.StatusCode)
       /\ ~call.ret.decoded

C2_Witness ==
    /\ version \in {"execute", "executor"}
    /\ Responded
    /\ call.resp.StatusCode = 300
    /\ call.resp.Body.syntax /\ call.resp.Body.resultType = "number"
    /\ call.ret.err.kind = "eris"

\* C3: whenever Execute (client.go, execute.go, executor.go, part_001) returns a
\* non-nil error, the result pointer it returns is nil.
C3_NoResultWithError ==
    (/\ version \in {"client", "execute", "executor", "pooled"}
     /\ Returned
     /\ call.ret.err.kind # "nil")
    => call.ret.result.nil

C3_Witness ==
    /\ version = "client"
    /\ Responded
    /\ ~call.resp.Body.syntax
    /\ call.ret.decoded
    /\ call.ret.err.kind = "eris"
    /\ call.ret.result.nil

\* C4: a call that passes no option is sent with the shared default client's
\* original settings, whatever options other calls passed.
C4_SharedClientUntouched ==
    (/\ version \in {"execute", "executor"}
     /\ call.do.called
     /\ call.opts = <<>>)
    => call.do.Timeout = DefaultTimeout

\* Prepare fails for the envelope and the endpoint of the call, and the cause
\* part_006 labels the failure with
PrepareFails == ~Encodable(call.rpc.Params) \/ ~ParseURL(call.url)
PrepareCause == IF ~Encodable(call.rpc.Params) THEN "encode request data"
                ELSE "create http request"

\* C5: Prepare on a malformed endpoint or an unencodable envelope returns a
\* prepared request that holds the error; its Execute returns a nil result and
\* an error holding the execute marker and the preparation cause, and sends
\* nothing, whatever client is passed (nil included).
C5_PrepareErrorAtExecute ==
    (version = "prepare" /\ PrepareFails) =>
        /\ call.pc = "prepared" =>
              call.err.kind # "nil" /\ ~call.hasReq /\ ~call.do.called
        /\ call.pc # "inflight"
        /\ call.pc = "done" =>
              /\ call.ret.result = NilResult
              /\ Contains(ErrorString(call.ret.err), <<"execute prepared request">>)
              /\ Contains(ErrorString(call.ret.err), <<PrepareCause>>)
              /\ ~call.do.called

C5_Witness ==
    /\ version = "prepare"
    /\ call.pc = "done"
    /\ ~ParseURL(call.url)
    /\ call.client = "nil"
    /\ Contains(ErrorString(call.ret.err), <<"create http request">>)

\* the header key an option writes ("" for an option that writes none), and
\* the positions of the options that write key k
WrittenKey(o) ==
    CASE o.op = "WithContentType" -> "Content-Type"
      [] o.op = "WithHeader"      -> CanonicalHeaderKey(o.key)
      [] OTHER                    -> ""
Writers(opts, k) == {i \in 1..Len(opts) : WrittenKey(opts[i]) = k}
Last(I) == CHOOSE i \in I : \A j \in I : j <= i

\* C6: the headers of the request Prepare built obey last-writer-wins over the
\* base headers and the options in the order given: a key written by options
\* holds the value of the last of them, and Content-Type holds application/json
\* when no option writes it.
C6_LastWriterWins ==
    (version = "prepare" /\ call.hasReq /\ call.pc \in {"prepared", "inflight", "done"})
    => \A k \in HeaderKeys :
          IF Writers(call.opts, k) # {}
          THEN call.req.Header[k] = call.opts[Last(Writers(call.opts, k))].value
          ELSE k = "Content-Type" => call.req.Header[k] = "application/json"

C6_Witness ==
    /\ version = "prepare"
    /\ call.pc = "inflight"
    /\ Cardinality(Writers(call.opts, "Authorization")) = 2
    /\ call.opts[1].value # call.opts[2].value
    /\ call.req.Header["Authorization"] = call.opts[2].value

\* C7: a request prepared without options is a POST to the endpoint with the
\* base headers Content-Type and Accept, both application/json, and a content
\* length equal to the length of the serialized envelope.
C7_PreparedRequestShape ==
    (version = "prepare" /\ call.pc = "prepared" /\ call.hasReq /\ call.opts = <<>>)
    => /\ call.req.Method = "POST"
       /\ call.req.URL = call.url
       /\ call.req.Header["Content-Type"] = "application/json"
       /\ call.req.Header["Accept"] = "application/json"
       /\ call.req.Body = Encode(call.rpc)
       /\ call.req.ContentLength = Len(call.req.Body)

\* the context the WithContext options of the call attach: that of the last one
ContextWriters(opts) == {i \in 1..Len(opts) : opts[i].op = "WithContext"}
CancelledInFlight ==
    /\ version = "prepare"
    /\ call.pc = "inflight"
    /\ ContextWriters(call.opts) # {}
    /\ ctxDone[call.opts[Last(ContextWriters(call.opts))].value]

\* C8: once the context attached with WithContext is cancelled while the
\* prepared request is in flight (also when it was cancelled before Execute
\* was called), Execute returns, and it returns a nil result and a transport
\* error that mentions the cancellation, without decoding a response.
C8_CancelReturns ==
    /\ [][(CancelledInFlight /\ call'.pc = "done")
            => /\ call'.ret.result = NilResult
               /\ call'.ret.err.kind = "eris"
               /\ Contains(ErrorString(call'.ret.err), <<"context canceled">>)
               /\ ~call'.ret.decoded]_vars
    /\ CancelledInFlight ~> (call.pc = "done")

C8_Witness ==
    /\ version = "prepare"
    /\ call.pc = "done"
    /\ ContextWriters(call.opts) # {}
    /\ ctxDone["ctx1"]
    /\ call.ret.result = NilResult
    /\ Contains(ErrorString(call.ret.err), <<"context canceled">>)

\* C9: in part_001, a call that passes UseClient(c) is sent through c.
C9_UseClientSelects ==
    (/\ version = "pooled"
     /\ call.do.called
     /\ \E i \in 1..Len(call.opts) : call.opts[i].op = "UseClient")
    => call.do.via = "custom"

\* C10: in part_001, the request of a call that passes UseContext(ctx) carries ctx.
C10_UseContextAttaches ==
    (/\ version = "pooled"
     /\ call.do.called
     /\ \E i \in 1..Len(call.opts) : call.opts[i].op = "UseContext")
    => call.req.ctx = "ctx1"

\* the options of the call that are plain functions, and those that were invoked
PlainTypes == {"func(*http.Request)", "func(*http.Client)"}
InvokedSet == {call.invoked[i] : i \in 1..Len(call.invoked)}

\* C11: in execute.go and executor.go, every option passed to Execute as a
\* plain function is invoked before the request is sent: the header a plain
\* request mutator sets is on the outgoing request, and a plain client mutator
\* has been called.
C11_PlainOptionsApplied ==
    (version \in {"execute", "executor"} /\ call.do.called)
    => \A i \in 1..Len(call.opts) :
          LET o == call.opts[i] IN
          o.type \in PlainTypes =>
             /\ o \in InvokedSet
             /\ IsRequestOp(o) => call.req.Header[CanonicalHeaderKey(o.key)] = o.value

\* a step that builds an envelope without an id option after an earlier
\* envelope of the process, which rpc still holds
BuildsAnother ==
    /\ call.pc = "idle"
    /\ call.rpc # NoEnvelope
    /\ call'.pc \in {"built", "prepared"}
    /\ \A i \in 1..Len(call'.ropts) : call'.ropts[i].op # "WithRPCid"

\* C12: an envelope built without an id option (CreateRequest, createRequest,
\* NewRequest) gets an id distinct from the id of the envelope the process
\* built before it, also within one reading of the clock.
C12_DistinctIds == [][BuildsAnother => call'.rpc.ID # call.rpc.ID]_vars

\* the wire form of the envelope of the call: the body of the request built
\* for it, or its encoding when no request was built
Wire == IF call.hasReq THEN call.req.Body ELSE Encode(call.rpc)

\* C13: decoding the wire form of an envelope gives back its method, its
\* params and its protocol version, for absent and empty params as well.
C13_RoundTrip ==
    (call.pc # "idle" /\ Encodable(call.rpc.Params))
    => LET d == Unmarshal(Wire, call.rpc.kind) IN
       /\ d.Method = call.rpc.Method
       /\ d.Params = call.rpc.Params
       /\ d.JSONRPC = call.rpc.JSONRPC

\* s is exactly "jsonrpc error: code=<code>, message=<message>", <code> being
\* the decimal numeral of code with a minus sign when it is negative
IsRPCErrorText(s, code, message) ==
    /\ Len(s) >= 4
    /\ s[1] = "jsonrpc error: code="
    /\ s[Len(s) - 1] = ", message="
    /\ s[Len(s)] = message
    /\ LET num == SubSeq(s, 2, Len(s) - 2)
           abs == IF code < 0 THEN Tail(num) ELSE num
       IN  /\ code < 0 => Head(num) = "-"
           /\ abs # <<>>
           /\ \A k \in 1..Len(abs) : abs[k] \in DigitTokens
           /\ ParseDecimal(abs) = (IF code < 0 THEN 0 - code ELSE code)

\* C14: when the decoded envelope has its error field populated, the error
\* Execute returns is the RPCError itself, with the code and the message of the
\* response, and its text is "jsonrpc error: code=<code>, message=<message>"
\* with nothing added, for negative codes as well.
C14_ProtocolErrorUnwrapped ==
    (Responded /\ call.ret.decoded /\ ErrorEnvelope(call.resp.Body))
    => /\ call.ret.err.kind = "rpc"
       /\ call.ret.err.code = call.resp.Body.code
       /\ call.ret.err.message = call.resp.Body.message
       /\ IsRPCErrorText(ErrorString(call.ret.err), call.resp.Body.code,
                         call.resp.Body.message)

C14_Witness ==
    /\ version = "pooled"
    /\ Responded
    /\ call.ret.decoded
    /\ call.resp.Body.error = "object"
    /\ call.resp.Body.code < 0
    /\ ErrorString(call.ret.err) =
          <<"jsonrpc error: code=", "-", "3", "2", "0", "0", "0", ", message=", "boom">>

\* C15: Execute of client.go returns a nil result and an error for every
\* response whose status is outside 200..299, whatever the body holds, and
\* never a result decoded from such a response.
C15_ClientStatusCheck ==
    (version = "client" /\ Responded /\ ~Is2xx(call.resp.StatusCode))
    => /\ call.ret.result = NilResult
       /\ call.ret.err.kind # "nil"

\* the call names no client of the caller: none is passed to the Execute of a
\* prepared request, and no option is UseClient
NoCallerClient ==
    /\ call.client = "nil"
    /\ \A i \in 1..Len(call.opts) : call.opts[i].op # "UseClient"

\* C16: a call to Execute that names no client of the caller is sent through
\* the package's own shared client, defaultHTTPClient.
C16_DefaultTransport ==
    (/\ version \in {"execute", "executor", "pooled", "prepare"}
     /\ call.do.called
     /\ NoCallerClient)
    => call.do.via = "defaultHTTPClient"

\* the client mutators a call passes in a form its Execute accepts: every
\* option of the Execute of a prepared request, the plain functions of
\* executor.go
IsPlainClientOption(o) == o.type = "func(*http.Client)"
ClientOptions ==
    IF version = "prepare" THEN call.eopts ELSE SelectSeq(call.opts, IsPlainClientOption)

\* C17: the client options passed to Execute are invoked once each, in the
\* order given, on the client the call is sent through, before the request is
\* sent: the request goes out under the timeout the last of them sets, and
\* once Execute has returned that client, the caller's own when one was
\* passed, carries that timeout.
C17_ClientOptionsApplied ==
    (version \in {"prepare", "executor"} /\ call.do.called)
    => /\ SelectSeq(call.invoked, IsClientOp) = ClientOptions
       /\ ClientOptions # <<>> =>
             /\ call.do.Timeout = ClientOptions[Len(ClientOptions)].n
             /\ call.pc = "done" =>
                   clients[call.do.via].Timeout = ClientOptions[Len(ClientOptions)].n
       /\ (version = "prepare" /\ call.client # "nil") => call.do.via = call.client

C17_Witness ==
    /\ version = "prepare"
    /\ call.pc = "done"
    /\ call.client = "custom"
    /\ Len(call.eopts) = 2
    /\ call.eopts[1].n = OptTimeout
    /\ call.eopts[2].n = ExecTimeout
    /\ call.invoked = call.eopts
    /\ clients["custom"].Timeout = ExecTimeout

\* the positions of the builder options of the call that are made by op
Builders(op) == {i \in 1..Len(call.ropts) : call.ropts[i].op = op}

\* C18: the envelope NewRequest returns has the method and the params it was
\* given; its version is "2.0" unless WithRPCVersion options were passed, and
\* then the version of the last of them; its id is a non-empty string of
\* decimal digits, a reading of the clock, unless WithRPCid options were
\* passed, and then the id of the last of them.  WithRPCVersion leaves the id alone and WithRPCid the version.
C18_NewRequestFields ==
    (version \in {"request", "prepare"} /\ call.pc = "built" /\ call.args # NoArgs)
    => /\ call.rpc.Method = call.args.method
       /\ call.rpc.Params = call.args.params
       /\ call.rpc.JSONRPC =
             (IF Builders("WithRPCVersion") = {} THEN "2.0"
              ELSE call.ropts[Last(Builders("WithRPCVersion"))].value)
       /\ IF Builders("WithRPCid") = {}
          THEN /\ call.rpc.ID.t = "string"
               /\ call.rpc.ID.v # <<>>
               /\ \A k \in 1..Len(call.rpc.ID.v) : call.rpc.ID.v[k] \in DigitTokens
               /\ ParseDecimal(call.rpc.ID.v) \in 0..now
          ELSE call.rpc.ID = call.ropts[Last(Builders("WithRPCid"))].id

C18_Witness ==
    /\ version = "request"
    /\ call.pc = "built"
    /\ Len(call.ropts) = 2
    /\ call.ropts[1].op = "WithRPCid" /\ call.ropts[2].op = "WithRPCid"
    /\ call.ropts[1].id # call.ropts[2].id
    /\ call.rpc.ID = call.ropts[2].id
    /\ call.rpc.JSONRPC = "2.0"
    /\ call.rpc.Params = "[]"

\* the body is an envelope of the expected shape without an error
ResultEnvelope(b) == b.syntax /\ b.resultType # "string" /\ b.error # "object"

\* C19: a 2xx response whose body decodes to an envelope without an error
\* makes Execute return a nil error and a non-nil pointer to the value of the
\* result field of the body.  (The body decodes when the bytes of its JSON
\* value arrived: a read that is cut inside the value delivers no envelope.)
C19_ResultReturned ==
    (Responded /\ Is2xx(call.resp.StatusCode) /\ ResultEnvelope(call.resp.Body)
     /\ call.resp.read # "cut")
    => /\ call.ret.err = NilErr
       /\ ~call.ret.result.nil
       /\ call.ret.result.val =
             (IF call.resp.Body.resultType = "number" THEN call.resp.Body.result ELSE 0)

C19_Witness ==
    /\ version = "execute"
    /\ Responded
    /\ call.resp.StatusCode = 299
    /\ call.rpc.Params = "[1,2]"
    /\ call.resp.Body.error = "null"
    /\ call.ret.result = ResultPtr(3)
    /\ call.ret.err = NilErr

\* the body is not JSON, or its result has the wrong type
Undecodable(b) == ~b.syntax \/ b.resultType = "string"

\* C20: a 2xx response whose body is malformed or holds a result of the wrong
\* type makes Execute return a nil result and an error that is not a protocol
\* error, and whose text holds "decode response" and the text of the decoder's
\* error.
C20_DecodeError ==
    (Responded /\ Is2xx(call.resp.StatusCode) /\ Undecodable(call.resp.Body))
    => /\ call.ret.result = NilResult
       /\ call.ret.err.kind = "eris"
       /\ Contains(ErrorString(call.ret.err), <<"decode response">>)
       /\ Contains(ErrorString(call.ret.err), Decode(call.resp.Body).err.text)

C20_Witness ==
    /\ version = "executor"
    /\ Responded
    /\ call.resp.StatusCode = 200
    /\ call.resp.Body.syntax /\ call.resp.Body.resultType = "string"
    /\ call.ret.decoded
    /\ ErrorString(call.ret.err) = <<"decode response", ": ", "mismatched type">>

\* the id a server echoes for the request it read from the wire, as the id
\* field of RPCResponse (declared `any`) receives it
EchoedID == Unmarshal(Marshal(Unmarshal(Wire, call.rpc.kind)), "interface").ID

C22_PooledBufferUnread == \A b \in bufferPool : ~b.reader

\* C23: in execute.go and part_001 the body handed to the transport is the
\* encoding of the envelope of this call and nothing else, and the content
\* length is its length, whatever calls borrowed the buffer before.
C23_BodyIsThisEnvelope ==
    (version \in {"execute", "pooled"} /\ call.hasReq)
    => /\ call.req.Body = Encode(call.rpc)
       /\ call.req.ContentLength = Len(Encode(call.rpc))

\* C24: in part_001, when the body of a 2xx response fails to be read to its
\* end, Execute returns a nil result and an error.
C24_ReadFailureReported ==
    (version = "pooled" /\ Responded /\ Is2xx(call.resp.StatusCode)
     /\ call.resp.read # "whole")
    => /\ call.ret.result = NilResult
       /\ call.ret.err.kind # "nil"

\* C25: in executor.go, execute.go and client.go, whenever the transport
\* delivered a response the body of the response is closed exactly once by
\* the time Execute returns, on every return path.
C25_BodyClosedOnce ==
    (version \in {"executor", "execute", "client"} /\ Responded)
    => call.ret.closed = 1

C27_OneOfRequestAndError ==
    (version = "prepare" /\ call.pc = "prepared")
    => /\ call.hasReq # (call.err.kind # "nil")
       /\ (call.err.kind # "nil") => call.invoked = <<>>

C27_Witness ==
    /\ version = "prepare"
    /\ call.pc = "prepared"
    /\ ~call.hasReq
    /\ call.err.kind # "nil"
    /\ ~ParseURL(call.url)
    /\ Len(call.opts) = 2
    /\ call.invoked = <<>>

====
